---- MODULE Spec2Model ----
(***************************************************************************)
(* Model of the authentication backend in src/main.py: registration,      *)
(* login, token issuance and verification, and the guard of the protected *)
(* routes, over a user collection kept by an external document store.     *)
(*                                                                         *)
(* Time is counted in minutes.  Optional values (Python None) are the     *)
(* empty sequence <<>>; a present value v is <<v>>.                        *)
(***************************************************************************)
EXTENDS Integers, Sequences, FiniteSets, TLC

VARIABLES
    users_collection,   \* db.users: the documents in insertion order
    registered_with,    \* history: registered_with[i] is the plaintext that
                        \* users_collection[i].password was hashed from
    clock,              \* datetime.utcnow(), in minutes
    pc,                 \* pc[p]: where request handler p stands
    req,                \* req[p]: the request p is serving
    loc,                \* loc[p]: the handler's local variables
    resp                \* resp[p]: the response p returned

vars == <<users_collection, registered_with, clock, pc, req, loc, resp>>

(***************************************************************************)
(* Bounds and input sets                                                   *)
(***************************************************************************)
MaxUsers == 2           \* registrations are admitted while fewer documents
MaxClock == 31          \* last instant of the simulated clock
NumSalts == 1           \* distinct bcrypt salts

Procs     == {1, 2}
Usernames == {"alice", "bob"}
Emails    == {"alice@x.com", "bob@x.com"}
Passwords == {"pw123", "wrong"}
Salts     == 1..NumSalts
Instants  == {0} \cup (29..MaxClock)
StoreErrors == {"ServerSelectionTimeoutError"}

(***************************************************************************)
(* Configuration (src/main.py:29-31)                                       *)
(***************************************************************************)
SECRET_KEY == "your-secret-key-here-change-in-production"
ALGORITHM == "HS256"
ACCESS_TOKEN_EXPIRE_MINUTES == 30
OtherKey == "some-other-secret"
Keys == {SECRET_KEY, OtherKey}

Min(S) == CHOOSE x \in S : \A y \in S : x <= y

(***************************************************************************)
(* Credential hasher: passlib bcrypt context                               *)
(***************************************************************************)
get_password_hash(password, salt) ==
    [scheme |-> "bcrypt", salt |-> salt, digest |-> <<salt, password>>]

\* variant: accepts any password
verify_password_any(plain_password, hashed_password) ==
    hashed_password.scheme = "bcrypt"

verify_password(plain_password, hashed_password) ==
    hashed_password.digest = <<hashed_password.salt, plain_password>>

(***************************************************************************)
(* Token service: python-jose jwt.encode / jwt.decode with HS256.  A token *)
(* is its payload together with the MAC of the payload under the key.      *)
(***************************************************************************)
jwt_encode(payload, key, algorithm) ==
    [kind |-> "jwt", payload |-> payload,
     sig |-> <<algorithm, key, payload>>]

Garbage == [kind |-> "garbage"]

\* variant: the signature is not checked
jwt_decode_unsigned(token, key, algorithm, now) ==
    IF token.kind # "jwt" THEN <<>>
    ELSE IF "exp" \in DOMAIN token.payload /\ token.payload.exp < now THEN <<>>
    ELSE <<token.payload>>

\* <<payload>> when the token decodes, <<>> when jwt.decode raises JWTError:
\* not a JWT, signature mismatch, or exp earlier than now (no leeway).
jwt_decode(token, key, algorithm, now) ==
    IF token.kind # "jwt" THEN <<>>
    ELSE IF token.sig # <<algorithm, key, token.payload>> THEN <<>>
    ELSE IF "exp" \in DOMAIN token.payload /\ token.payload.exp < now THEN <<>>
    ELSE <<token.payload>>

\* variant: the caller's expires_delta is ignored
create_access_token_default(data, expires_delta, now) ==
    jwt_encode([exp |-> now + 15] @@ data, SECRET_KEY, ALGORITHM)

\* expires_delta is <<>> (None) or <<minutes>>; "if expires_delta:" is false
\* for None and for timedelta(0) alike.
create_access_token(data, expires_delta, now) ==
    LET expire == IF expires_delta # <<>> /\ expires_delta[1] # 0
                  THEN now + expires_delta[1]
                  ELSE now + 15
        to_encode == [exp |-> expire] @@ data
    IN  jwt_encode(to_encode, SECRET_KEY, ALGORITHM)

(***************************************************************************)
(* User directory: find_one returns the first matching document            *)
(***************************************************************************)
\* variant: the query names the wrong field
get_user_by_username_wrong_field(username) ==
    LET hits == {i \in 1..Len(users_collection) :
                    users_collection[i].email = username}
    IN  IF hits = {} THEN <<>> ELSE <<users_collection[Min(hits)]>>

get_user_by_username(username) ==
    LET hits == {i \in 1..Len(users_collection) :
                    users_collection[i].username = username}
    IN  IF hits = {} THEN <<>> ELSE <<users_collection[Min(hits)]>>

\* variant: the query names the wrong field
get_user_by_email_wrong_field(email) ==
    LET hits == {i \in 1..Len(users_collection) :
                    users_collection[i].username = email}
    IN  IF hits = {} THEN <<>> ELSE <<users_collection[Min(hits)]>>

get_user_by_email(email) ==
    LET hits == {i \in 1..Len(users_collection) :
                    users_collection[i].email = email}
    IN  IF hits = {} THEN <<>> ELSE <<users_collection[Min(hits)]>>

find_one_by_id(coll, id) ==
    LET hits == {i \in 1..Len(coll) : coll[i]._id = id}
    IN  IF hits = {} THEN <<>> ELSE <<coll[Min(hits)]>>

\* str(ObjectId)
str(id) == ToString(id)

(***************************************************************************)
(* Response models                                                         *)
(***************************************************************************)
\* variant: the view's username is taken from the wrong field
UserResponse_wrong_username(doc) ==
    [id |-> str(doc._id), username |-> doc.email, email |-> doc.email,
     created_at |-> doc.created_at]

UserResponse(doc) ==
    [id |-> str(doc._id), username |-> doc.username, email |-> doc.email,
     created_at |-> doc.created_at]

AuthResponse(success, message, user, token) ==
    [kind |-> "AuthResponse", success |-> success, message |-> message,
     user |-> user, token |-> token]

NoResp == [kind |-> "none"]
NoReq  == [kind |-> "none"]
\* at: the instant the handler's token operation read the clock (history);
\* fresh: the registration's username and email were unused when it
\* arrived (history); err: the exception a store call raised (e); path: the
\* guard states a protected request has passed through (history)
NoLoc  == [user |-> <<>>, username |-> <<>>, inserted_id |-> <<>>,
           at |-> <<>>, fresh |-> FALSE, err |-> <<>>, path |-> <<>>]

(***************************************************************************)
(* Initial state: empty collection, every handler idle                     *)
(***************************************************************************)
Init ==
    /\ users_collection = <<>>
    /\ registered_with = <<>>
    /\ clock = 0
    /\ pc = [p \in Procs |-> "idle"]
    /\ req = [p \in Procs |-> NoReq]
    /\ loc = [p \in Procs |-> NoLoc]
    /\ resp = [p \in Procs |-> NoResp]

Finished(p) == pc[p] \in {"idle", "done"}

\* A worker takes a request when it is not serving one.  The handlers are
\* coroutines that never await, so one worker serves its requests one at a
\* time, each to completion (seq: worker 1 alone); requests interleave only
\* between workers.
CanStart(p, seq) ==
    /\ Finished(p)
    /\ seq => p = 1

InFlightRegisters ==
    Cardinality({q \in Procs : ~Finished(q) /\ req[q].kind = "register"})

\* The simulated clock jumps to a later instant.
Tick ==
    /\ \E t \in Instants : t > clock /\ clock' = t
    /\ UNCHANGED <<users_collection, registered_with, pc, req, loc, resp>>

(***************************************************************************)
(* POST /api/auth/register                                                 *)
(***************************************************************************)
StartRegister(p, seq, username, email, password) ==
    /\ CanStart(p, seq)
    /\ Len(users_collection) + InFlightRegisters < MaxUsers
    /\ pc' = [pc EXCEPT ![p] = "reg_username"]
    /\ req' = [req EXCEPT ![p] = [kind |-> "register", username |-> username,
                                  email |-> email, password |-> password]]
    /\ loc' = [loc EXCEPT ![p] =
                  [NoLoc EXCEPT !.fresh = /\ get_user_by_username(username) = <<>>
                                          /\ get_user_by_email(email) = <<>>]]
    /\ resp' = [resp EXCEPT ![p] = NoResp]
    /\ UNCHANGED <<users_collection, registered_with, clock>>

\* variant: no except clause, the exception reaches the framework
RegisterFailed_escapes(p, e) ==
    /\ resp' = [resp EXCEPT ![p] =
                  [kind |-> "HTTPException", status_code |-> 500,
                   detail |-> "Internal Server Error", headers |-> {}]]
    /\ loc' = [loc EXCEPT ![p].err = <<e>>]
    /\ pc' = [pc EXCEPT ![p] = "done"]

\* lines 170-174: the except clause of register
RegisterFailed(p, e) ==
    /\ resp' = [resp EXCEPT ![p] =
                  AuthResponse(FALSE, "Registration failed: " \o e, <<>>, <<>>)]
    /\ loc' = [loc EXCEPT ![p].err = <<e>>]
    /\ pc' = [pc EXCEPT ![p] = "done"]

\* variant: the email is checked where the username check stands
RegCheckUsername_email_first(p, ok) ==
    /\ pc[p] = "reg_username"
    /\ IF ~ok
       THEN \E e \in StoreErrors : RegisterFailed(p, e)
       ELSE IF get_user_by_email(req[p].email) # <<>>
       THEN /\ resp' = [resp EXCEPT ![p] =
                   AuthResponse(FALSE, "Email already registered", <<>>, <<>>)]
            /\ pc' = [pc EXCEPT ![p] = "done"]
            /\ UNCHANGED loc
       ELSE IF get_user_by_username(req[p].username) # <<>>
       THEN /\ resp' = [resp EXCEPT ![p] =
                   AuthResponse(FALSE, "Username already exists", <<>>, <<>>)]
            /\ pc' = [pc EXCEPT ![p] = "done"]
            /\ UNCHANGED loc
       ELSE /\ pc' = [pc EXCEPT ![p] = "reg_email"]
            /\ UNCHANGED <<resp, loc>>
    /\ UNCHANGED <<users_collection, registered_with, clock, req>>

\* lines 119-123: the username existence check
RegCheckUsername(p, ok) ==
    /\ pc[p] = "reg_username"
    /\ IF ~ok
       THEN \E e \in StoreErrors : RegisterFailed(p, e)
       ELSE IF get_user_by_username(req[p].username) # <<>>
       THEN /\ resp' = [resp EXCEPT ![p] =
                   AuthResponse(FALSE, "Username already exists", <<>>, <<>>)]
            /\ pc' = [pc EXCEPT ![p] = "done"]
            /\ UNCHANGED loc
       ELSE /\ pc' = [pc EXCEPT ![p] = "reg_email"]
            /\ UNCHANGED <<resp, loc>>
    /\ UNCHANGED <<users_collection, registered_with, clock, req>>

\* lines 125-129: the email existence check
RegCheckEmail(p, ok) ==
    /\ pc[p] = "reg_email"
    /\ IF ~ok
       THEN \E e \in StoreErrors : RegisterFailed(p, e)
       ELSE IF get_user_by_email(req[p].email) # <<>>
       THEN /\ resp' = [resp EXCEPT ![p] =
                   AuthResponse(FALSE, "Email already registered", <<>>, <<>>)]
            /\ pc' = [pc EXCEPT ![p] = "done"]
            /\ UNCHANGED loc
       ELSE /\ pc' = [pc EXCEPT ![p] = "reg_insert"]
            /\ UNCHANGED <<resp, loc>>
    /\ UNCHANGED <<users_collection, registered_with, clock, req>>

\* lines 132-140: hash the password, build the document, insert_one.  The
\* store assigns the _id; the collection has no unique index besides _id.
RegInsert(p, ok, salt) ==
    /\ pc[p] = "reg_insert"
    /\ IF ~ok
       THEN /\ \E e \in StoreErrors : RegisterFailed(p, e)
            /\ UNCHANGED <<users_collection, registered_with>>
       ELSE LET hashed_password == get_password_hash(req[p].password, salt)
                inserted_id == Len(users_collection) + 1
                user_doc == [_id |-> inserted_id,
                             username |-> req[p].username,
                             email |-> req[p].email,
                             password |-> hashed_password,
                             created_at |-> clock]
            IN  /\ users_collection' = Append(users_collection, user_doc)
                /\ registered_with' = Append(registered_with, req[p].password)
                /\ loc' = [loc EXCEPT ![p].inserted_id = <<inserted_id>>]
                /\ pc' = [pc EXCEPT ![p] = "reg_respond"]
                /\ UNCHANGED resp
    /\ UNCHANGED <<clock, req>>

\* lines 142-163: issue the token, re-read the inserted user, respond.
\* (inserted_id is an ObjectId and always truthy, so the else branch of
\* line 164 is never taken.)
RegRespond(p, ok) ==
    /\ pc[p] = "reg_respond"
    /\ IF ~ok
       THEN \E e \in StoreErrors : RegisterFailed(p, e)
       ELSE LET access_token == create_access_token(
                                    [sub |-> req[p].username],
                                    <<ACCESS_TOKEN_EXPIRE_MINUTES>>, clock)
                created_user == find_one_by_id(users_collection,
                                               loc[p].inserted_id[1])[1]
            IN  /\ resp' = [resp EXCEPT ![p] =
                       AuthResponse(TRUE, "User created successfully",
                                    <<UserResponse(created_user)>>,
                                    <<access_token>>)]
                /\ loc' = [loc EXCEPT ![p].at = <<clock>>]
                /\ pc' = [pc EXCEPT ![p] = "done"]
    /\ UNCHANGED <<users_collection, registered_with, clock, req>>

(***************************************************************************)
(* POST /api/auth/login                                                    *)
(***************************************************************************)
StartLogin(p, seq, username, password) ==
    /\ CanStart(p, seq)
    /\ pc' = [pc EXCEPT ![p] = "login"]
    /\ req' = [req EXCEPT ![p] = [kind |-> "login", username |-> username,
                                  password |-> password]]
    /\ loc' = [loc EXCEPT ![p] = NoLoc]
    /\ resp' = [resp EXCEPT ![p] = NoResp]
    /\ UNCHANGED <<users_collection, registered_with, clock>>

\* variant: an unknown username gets a message of its own
Login_reveals(p, ok) ==
    /\ pc[p] = "login"
    /\ LET user == get_user_by_username(req[p].username)
       IN  IF ~ok
           THEN \E e \in StoreErrors :
                     /\ resp' = [resp EXCEPT ![p] =
                           AuthResponse(FALSE, "Login failed: " \o e,
                                        <<>>, <<>>)]
                     /\ loc' = [loc EXCEPT ![p].err = <<e>>]
           ELSE IF user = <<>>
           THEN /\ resp' = [resp EXCEPT ![p] =
                       AuthResponse(FALSE, "User not found", <<>>, <<>>)]
                /\ UNCHANGED loc
           ELSE IF ~verify_password(req[p].password, user[1].password)
           THEN /\ resp' = [resp EXCEPT ![p] =
                       AuthResponse(FALSE, "Invalid username or password",
                                    <<>>, <<>>)]
                /\ loc' = [loc EXCEPT ![p].user = user]
           ELSE LET access_token == create_access_token(
                                        [sub |-> user[1].username],
                                        <<ACCESS_TOKEN_EXPIRE_MINUTES>>, clock)
                IN  /\ resp' = [resp EXCEPT ![p] =
                           AuthResponse(TRUE, "Login successful",
                                        <<UserResponse(user[1])>>,
                                        <<access_token>>)]
                    /\ loc' = [loc EXCEPT ![p].user = user,
                                          ![p].at = <<clock>>]
    /\ pc' = [pc EXCEPT ![p] = "done"]
    /\ UNCHANGED <<users_collection, registered_with, clock, req>>

\* lines 178-219
Login(p, ok) ==
    /\ pc[p] = "login"
    /\ LET user == get_user_by_username(req[p].username)
       IN  IF ~ok
           THEN \E e \in StoreErrors :
                     /\ resp' = [resp EXCEPT ![p] =
                           AuthResponse(FALSE, "Login failed: " \o e,
                                        <<>>, <<>>)]
                     /\ loc' = [loc EXCEPT ![p].err = <<e>>]
           ELSE IF user = <<>>
           THEN /\ resp' = [resp EXCEPT ![p] =
                       AuthResponse(FALSE, "Invalid username or password",
                                    <<>>, <<>>)]
                /\ UNCHANGED loc
           ELSE IF ~verify_password(req[p].password, user[1].password)
           THEN /\ resp' = [resp EXCEPT ![p] =
                       AuthResponse(FALSE, "Invalid username or password",
                                    <<>>, <<>>)]
                /\ loc' = [loc EXCEPT ![p].user = user]
           ELSE LET access_token == create_access_token(
                                        [sub |-> user[1].username],
                                        <<ACCESS_TOKEN_EXPIRE_MINUTES>>, clock)
                IN  /\ resp' = [resp EXCEPT ![p] =
                           AuthResponse(TRUE, "Login successful",
                                        <<UserResponse(user[1])>>,
                                        <<access_token>>)]
                    /\ loc' = [loc EXCEPT ![p].user = user,
                                          ![p].at = <<clock>>]
    /\ pc' = [pc EXCEPT ![p] = "done"]
    /\ UNCHANGED <<users_collection, registered_with, clock, req>>

(***************************************************************************)
(* Access guard and the protected routes                                   *)
(***************************************************************************)
HTTPException(status_code, detail, headers) ==
    [kind |-> "HTTPException", status_code |-> status_code,
     detail |-> detail, headers |-> headers]

Ok(route, body) ==
    [kind |-> "ok", status_code |-> 200, route |-> route, body |-> body]

\* lines 92-96
credentials_exception ==
    HTTPException(401, "Could not validate credentials",
                  {<<"WWW-Authenticate", "Bearer">>})

\* an exception that no handler catches: the framework answers 500
InternalServerError == HTTPException(500, "Internal Server Error", {})

\* Status with which HTTPBearer() (auto_error on) answers a request that has
\* no Authorization header.  The framework is not pinned by the repository:
\* FastAPI releases before 0.122 answer 403, later ones 401.
NotAuthenticatedStatus == {403, 401}

not_authenticated(status_code) ==
    HTTPException(status_code, "Not authenticated",
                  IF status_code = 401 THEN {<<"WWW-Authenticate", "Bearer">>}
                                       ELSE {})

\* Tokens a client may hold without the server having issued them in this
\* run: claims as issued at instant 0, signed with either key, with or
\* without a subject, and a string that is not a JWT.
ClientPayloads ==
    {[sub |-> u, exp |-> ACCESS_TOKEN_EXPIRE_MINUTES] : u \in Usernames}
        \cup {[exp |-> ACCESS_TOKEN_EXPIRE_MINUTES]}

ClientTokens ==
    {jwt_encode(pl, SECRET_KEY, ALGORITHM) : pl \in ClientPayloads}
        \cup {jwt_encode([sub |-> "alice",
                          exp |-> ACCESS_TOKEN_EXPIRE_MINUTES],
                         OtherKey, ALGORITHM)}
        \cup {Garbage}

\* Tokens handed out in the responses still held
IssuedTokens ==
    {resp[q].token[1] : q \in {r \in Procs :
        resp[r].kind \in {"AuthResponse", "token"} /\ resp[r].token # <<>>}}

Routes == {"me", "users"}

\* The user views that the register and login results still held carried
\* together with these credentials (history)
IssuedWith(credentials) ==
    {resp[q].user[1] : q \in {r \in Procs :
        /\ resp[r].kind = "AuthResponse" /\ resp[r].success
        /\ resp[r].token = credentials}}

StartProtected(p, seq, route, credentials) ==
    /\ CanStart(p, seq)
    /\ pc' = [pc EXCEPT ![p] = "guard_bearer"]
    /\ req' = [req EXCEPT ![p] = [kind |-> "protected", route |-> route,
                                  credentials |-> credentials,
                                  issued_with |-> IssuedWith(credentials)]]
    /\ loc' = [loc EXCEPT ![p] = [NoLoc EXCEPT !.path = <<"NoToken">>]]
    /\ resp' = [resp EXCEPT ![p] = NoResp]
    /\ UNCHANGED <<users_collection, registered_with, clock>>

\* variant: HTTPBearer(auto_error=False) hands absent credentials on, and
\* reading credentials.credentials (line 98) raises outside the try block
GuardBearer_optional(p) ==
    /\ pc[p] = "guard_bearer"
    /\ IF req[p].credentials = <<>>
       THEN /\ resp' = [resp EXCEPT ![p] = InternalServerError]
            /\ pc' = [pc EXCEPT ![p] = "done"]
            /\ UNCHANGED loc
       ELSE /\ pc' = [pc EXCEPT ![p] = "guard_decode"]
            /\ loc' = [loc EXCEPT ![p].path = @ \o <<"TokenPresent">>]
            /\ UNCHANGED resp
    /\ UNCHANGED <<users_collection, registered_with, clock, req>>

\* line 34, Depends(security): extract the bearer credentials
GuardBearer(p) ==
    /\ pc[p] = "guard_bearer"
    /\ IF req[p].credentials = <<>>
       THEN /\ \E s \in NotAuthenticatedStatus :
                  resp' = [resp EXCEPT ![p] = not_authenticated(s)]
            /\ pc' = [pc EXCEPT ![p] = "done"]
            /\ loc' = [loc EXCEPT ![p].path = @ \o <<"Rejected">>]
       ELSE /\ pc' = [pc EXCEPT ![p] = "guard_decode"]
            /\ loc' = [loc EXCEPT ![p].path = @ \o <<"TokenPresent">>]
            /\ UNCHANGED resp
    /\ UNCHANGED <<users_collection, registered_with, clock, req>>

\* lines 97-103: decode the token and take its subject
GuardDecode(p) ==
    /\ pc[p] = "guard_decode"
    /\ LET payload == jwt_decode(req[p].credentials[1], SECRET_KEY,
                                 ALGORITHM, clock)
           username == IF payload # <<>> /\ "sub" \in DOMAIN payload[1]
                       THEN <<payload[1].sub>> ELSE <<>>
       IN  IF payload = <<>> \/ username = <<>>
           THEN /\ resp' = [resp EXCEPT ![p] = credentials_exception]
                /\ loc' = [loc EXCEPT ![p].at = <<clock>>,
                       ![p].path = @ \o <<"Unverified", "Rejected">>]
                /\ pc' = [pc EXCEPT ![p] = "done"]
           ELSE /\ loc' = [loc EXCEPT ![p].username = username,
                                      ![p].at = <<clock>>,
                                      ![p].path = @ \o <<"Verified">>]
                /\ pc' = [pc EXCEPT ![p] = "guard_find"]
                /\ UNCHANGED resp
    /\ UNCHANGED <<users_collection, registered_with, clock, req>>

\* lines 105-108: resolve the subject to a user
GuardFind(p, ok) ==
    /\ pc[p] = "guard_find"
    /\ LET user == get_user_by_username(loc[p].username[1])
       IN  IF ~ok
           THEN /\ resp' = [resp EXCEPT ![p] = InternalServerError]
                /\ pc' = [pc EXCEPT ![p] = "done"]
                /\ \E e \in StoreErrors :
                       loc' = [loc EXCEPT ![p].err = <<e>>]
           ELSE IF user = <<>>
           THEN /\ resp' = [resp EXCEPT ![p] = credentials_exception]
                /\ pc' = [pc EXCEPT ![p] = "done"]
                /\ loc' = [loc EXCEPT ![p].path =
                               @ \o <<"UserMissing", "Rejected">>]
           ELSE /\ loc' = [loc EXCEPT ![p].user = user,
                       ![p].path = @ \o <<"UserResolved", "Authorized">>]
                /\ pc' = [pc EXCEPT ![p] = "route"]
                /\ UNCHANGED resp
    /\ UNCHANGED <<users_collection, registered_with, clock, req>>

\* variant: answers with the first stored user instead of the resolved one
get_current_user_info_first(p) ==
    /\ pc[p] = "route"
    /\ req[p].route = "me"
    /\ resp' = [resp EXCEPT ![p] = Ok("me", UserResponse(users_collection[1]))]
    /\ pc' = [pc EXCEPT ![p] = "done"]
    /\ UNCHANGED <<users_collection, registered_with, clock, req, loc>>

\* lines 221-228: GET /api/auth/me
get_current_user_info(p) ==
    /\ pc[p] = "route"
    /\ req[p].route = "me"
    /\ resp' = [resp EXCEPT ![p] = Ok("me", UserResponse(loc[p].user[1]))]
    /\ pc' = [pc EXCEPT ![p] = "done"]
    /\ UNCHANGED <<users_collection, registered_with, clock, req, loc>>

\* variant: the projection that drops the password is missing
ListedUser_unprojected(doc) ==
    [id |-> str(doc._id), username |-> doc.username, email |-> doc.email,
     password |-> doc.password, created_at |-> doc.created_at]

\* find({}, {"password": 0}), then id = str(_id) and del _id
ListedUser(doc) ==
    [id |-> str(doc._id), username |-> doc.username, email |-> doc.email,
     created_at |-> doc.created_at]

\* lines 230-237: GET /api/users
get_all_users(p, ok) ==
    /\ pc[p] = "route"
    /\ req[p].route = "users"
    /\ IF ~ok
       THEN /\ resp' = [resp EXCEPT ![p] = InternalServerError]
            /\ \E e \in StoreErrors : loc' = [loc EXCEPT ![p].err = <<e>>]
       ELSE /\ resp' = [resp EXCEPT ![p] =
                  Ok("users", [i \in 1..Len(users_collection) |->
                                  ListedUser(users_collection[i])])]
            /\ UNCHANGED loc
    /\ pc' = [pc EXCEPT ![p] = "done"]
    /\ UNCHANGED <<users_collection, registered_with, clock, req>>


(***************************************************************************)
(* The open routes GET / and GET /api/health                               *)
(***************************************************************************)
\* lines 111-113
root(p, seq) ==
    /\ CanStart(p, seq)
    /\ pc' = [pc EXCEPT ![p] = "done"]
    /\ req' = [req EXCEPT ![p] = [kind |-> "root"]]
    /\ loc' = [loc EXCEPT ![p] = NoLoc]
    /\ resp' = [resp EXCEPT ![p] =
          Ok("root", [message |-> "Health App API is running",
                      status |-> "healthy"])]
    /\ UNCHANGED <<users_collection, registered_with, clock>>

\* lines 239-255: ping the store
health_check(p, seq, ok) ==
    /\ CanStart(p, seq)
    /\ pc' = [pc EXCEPT ![p] = "done"]
    /\ req' = [req EXCEPT ![p] = [kind |-> "health"]]
    /\ IF ok
       THEN /\ resp' = [resp EXCEPT ![p] =
                  Ok("health", [status |-> "healthy",
                                database |-> "connected",
                                timestamp |-> clock])]
            /\ loc' = [loc EXCEPT ![p] = NoLoc]
       ELSE \E e \in StoreErrors :
            /\ resp' = [resp EXCEPT ![p] =
                  Ok("health", [status |-> "unhealthy",
                                database |-> "disconnected",
                                error |-> e, timestamp |-> clock])]
            /\ loc' = [loc EXCEPT ![p] = [NoLoc EXCEPT !.err = <<e>>]]
    /\ UNCHANGED <<users_collection, registered_with, clock>>

(***************************************************************************)
(* The token service called directly                                       *)
(***************************************************************************)
ExpiresDeltas == {<<>>, <<0>>, <<ACCESS_TOKEN_EXPIRE_MINUTES>>}

CallCreateAccessToken(p, sub, expires_delta) ==
    /\ p = 2
    /\ Finished(p)
    /\ pc' = [pc EXCEPT ![p] = "done"]
    /\ req' = [req EXCEPT ![p] = [kind |-> "issue", sub |-> sub,
                                  expires_delta |-> expires_delta]]
    /\ loc' = [loc EXCEPT ![p] = [NoLoc EXCEPT !.at = <<clock>>]]
    /\ resp' = [resp EXCEPT ![p] =
          [kind |-> "token",
           token |-> <<create_access_token([sub |-> sub], expires_delta,
                                           clock)>>]]
    /\ UNCHANGED <<users_collection, registered_with, clock>>

(***************************************************************************)
(* Specifications                                                          *)
(***************************************************************************)
\* Requests served one at a time, each to completion; store calls return.
Next ==
    \/ Tick
    \/ \E p \in Procs, u \in Usernames, e \in Emails, w \in Passwords :
          StartRegister(p, TRUE, u, e, w)
    \/ \E p \in Procs : RegCheckUsername(p, TRUE)
    \/ \E p \in Procs : RegCheckEmail(p, TRUE)
    \/ \E p \in Procs, s \in Salts : RegInsert(p, TRUE, s)
    \/ \E p \in Procs : RegRespond(p, TRUE)
    \/ \E p \in Procs, u \in Usernames, w \in Passwords :
          StartLogin(p, TRUE, u, w)
    \/ \E p \in Procs : Login(p, TRUE)
    \/ \E p \in Procs, r \in Routes,
          c \in {<<>>} \cup {<<t>> : t \in ClientTokens \cup IssuedTokens} :
          StartProtected(p, TRUE, r, c)
    \/ \E p \in Procs : GuardBearer(p)
    \/ \E p \in Procs : GuardDecode(p)
    \/ \E p \in Procs : GuardFind(p, TRUE)
    \/ \E p \in Procs : get_current_user_info(p)
    \/ \E p \in Procs : get_all_users(p, TRUE)

Spec == Init /\ [][Next]_vars

\* One worker; every store call either returns or raises.
NextFault ==
    \/ Tick
    \/ \E p \in Procs, u \in Usernames, e \in Emails, w \in Passwords :
          StartRegister(p, TRUE, u, e, w)
    \/ \E p \in Procs, ok \in BOOLEAN : RegCheckUsername(p, ok)
    \/ \E p \in Procs, ok \in BOOLEAN : RegCheckEmail(p, ok)
    \/ \E p \in Procs, ok \in BOOLEAN, s \in Salts : RegInsert(p, ok, s)
    \/ \E p \in Procs, ok \in BOOLEAN : RegRespond(p, ok)
    \/ \E p \in Procs, u \in Usernames, w \in Passwords :
          StartLogin(p, TRUE, u, w)
    \/ \E p \in Procs, ok \in BOOLEAN : Login(p, ok)
    \/ \E p \in Procs, r \in Routes,
          c \in {<<>>} \cup {<<t>> : t \in ClientTokens \cup IssuedTokens} :
          StartProtected(p, TRUE, r, c)
    \/ \E p \in Procs : GuardBearer(p)
    \/ \E p \in Procs : GuardDecode(p)
    \/ \E p \in Procs, ok \in BOOLEAN : GuardFind(p, ok)
    \/ \E p \in Procs : get_current_user_info(p)
    \/ \E p \in Procs, ok \in BOOLEAN : get_all_users(p, ok)
    \/ \E p \in Procs : root(p, TRUE)
    \/ \E p \in Procs, ok \in BOOLEAN : health_check(p, TRUE, ok)

SpecFault == Init /\ [][NextFault]_vars

\* Spec with the worker running the guard of an accepted request to its
\* end: get_current_user has no await, and the store calls return.
SpecFair ==
    /\ Spec
    /\ \A p \in Procs : /\ WF_vars(GuardBearer(p))
                        /\ WF_vars(GuardDecode(p))
                        /\ WF_vars(GuardFind(p, TRUE))

\* Registrations whose username or password may be the empty string, which
\* the request model (str fields, lines 43-46) admits.
NextEmpty ==
    \/ Tick
    \/ \E p \in Procs, u \in Usernames \cup {""}, e \in Emails,
          w \in Passwords \cup {""} :
          StartRegister(p, TRUE, u, e, w)
    \/ \E p \in Procs : RegCheckUsername(p, TRUE)
    \/ \E p \in Procs : RegCheckEmail(p, TRUE)
    \/ \E p \in Procs, s \in Salts : RegInsert(p, TRUE, s)
    \/ \E p \in Procs : RegRespond(p, TRUE)

SpecEmpty == Init /\ [][NextEmpty]_vars

\* Two workers serving registrations, their steps interleaved.
NextConc ==
    \/ Tick
    \/ \E p \in Procs, u \in Usernames, e \in Emails, w \in Passwords :
          StartRegister(p, FALSE, u, e, w)
    \/ \E p \in Procs : RegCheckUsername(p, TRUE)
    \/ \E p \in Procs : RegCheckEmail(p, TRUE)
    \/ \E p \in Procs, s \in Salts : RegInsert(p, TRUE, s)
    \/ \E p \in Procs : RegRespond(p, TRUE)

SpecConc == Init /\ [][NextConc]_vars

\* The token service and the guard on their own: direct calls of
\* create_access_token on worker 2, protected requests on worker 1 that may
\* present the tokens so issued.
NextToken ==
    \/ Tick
    \/ \E p \in Procs, u \in Usernames, d \in ExpiresDeltas :
          CallCreateAccessToken(p, u, d)
    \/ \E p \in Procs, r \in Routes,
          c \in {<<>>} \cup {<<t>> : t \in ClientTokens \cup IssuedTokens} :
          StartProtected(p, TRUE, r, c)
    \/ \E p \in Procs : GuardBearer(p)
    \/ \E p \in Procs : GuardDecode(p)
    \/ \E p \in Procs : GuardFind(p, TRUE)

SpecToken == Init /\ [][NextToken]_vars

(***************************************************************************)
(* Properties                                                              *)
(***************************************************************************)
UsersNamed(coll, username) ==
    {i \in 1..Len(coll) : coll[i].username = username}

UsersWithEmail(coll, email) ==
    {i \in 1..Len(coll) : coll[i].email = email}

\* worker p takes the step that leaves control point at
Leaves(p, at) == pc[p] = at /\ pc'[p] # at

\* C1: after any sequence of registrations, each run to completion before
\* the next starts, no two users in the directory have the same username
\* and no two have the same email.
C1_UniqueUsernameAndEmail ==
    \A i, j \in 1..Len(users_collection) :
        i # j => /\ users_collection[i].username # users_collection[j].username
                 /\ users_collection[i].email # users_collection[j].email

C1_Witness ==
    /\ Len(users_collection) = 2
    /\ pc[1] = "done" /\ req[1].kind = "register" /\ resp[1].success

\* C2: of two registrations with the same unused username (and unused
\* emails) whose steps interleave, exactly one is accepted and exactly one
\* user with that username exists afterward.
C2_ExactlyOneAccepted ==
    \A p, q \in Procs :
        ( /\ p # q
          /\ pc[p] = "done" /\ pc[q] = "done"
          /\ req[p].kind = "register" /\ req[q].kind = "register"
          /\ req[p].username = req[q].username
          /\ loc[p].fresh /\ loc[q].fresh )
        => /\ resp[p].success # resp[q].success
           /\ Cardinality(UsersNamed(users_collection, req[p].username)) = 1

\* C3: a registration whose username is already in the directory returns
\* success=false, "Username already exists", no user and no token, and
\* leaves the directory unchanged, with exactly one user of that username.
C3_DuplicateUsernameRejected ==
    [][\A p \in Procs :
        ( /\ Leaves(p, "reg_username")
          /\ UsersNamed(users_collection, req[p].username) # {} )
        => /\ pc'[p] = "done"
           /\ resp'[p] = [kind |-> "AuthResponse", success |-> FALSE,
                          message |-> "Username already exists",
                          user |-> <<>>, token |-> <<>>]
           /\ users_collection' = users_collection
           /\ Cardinality(UsersNamed(users_collection',
                                     req[p].username)) = 1]_vars

C3_Witness ==
    /\ pc[1] = "done" /\ req[1].kind = "register"
    /\ resp[1].message = "Username already exists"
    /\ Cardinality(UsersNamed(users_collection, req[1].username)) = 1

\* C4: a registration with a new username and an email some user holds
\* returns success=false, "Email already registered", and leaves the
\* directory unchanged; when username and email both exist the answer is
\* "Username already exists".
C4_DuplicateEmailRejected ==
    [][\A p \in Procs :
        LET newName == UsersNamed(users_collection, req[p].username) = {}
            heldEmail == UsersWithEmail(users_collection, req[p].email) # {}
        IN  /\ (Leaves(p, "reg_username") /\ newName /\ heldEmail)
                    => pc'[p] = "reg_email"
            /\ (Leaves(p, "reg_email") /\ newName /\ heldEmail)
                    => /\ pc'[p] = "done"
                       /\ resp'[p] = [kind |-> "AuthResponse",
                                      success |-> FALSE,
                                      message |-> "Email already registered",
                                      user |-> <<>>, token |-> <<>>]
                       /\ users_collection' = users_collection
            /\ (Leaves(p, "reg_username") /\ ~newName /\ heldEmail)
                    => /\ pc'[p] = "done"
                       /\ resp'[p].message = "Username already exists"
            /\ (pc[p] = "reg_email" /\ heldEmail) => newName]_vars

C4_Witness ==
    /\ pc[1] = "done" /\ req[1].kind = "register"
    /\ resp[1].message = "Email already registered"
    /\ UsersNamed(users_collection, req[1].username) = {}
    /\ UsersWithEmail(users_collection, req[1].email) # {}

\* C5: login(username, password) succeeds exactly when the directory holds
\* a user of that username who registered with that password; a successful
\* result carries a token signed by the server whose subject is the
\* username, and a user view with the username.
C5_LoginSucceedsIffRegisteredPassword ==
    [][\A p \in Procs :
        Leaves(p, "login") =>
          /\ resp'[p].kind = "AuthResponse"
          /\ resp'[p].success <=>
                \E i \in UsersNamed(users_collection, req[p].username) :
                    registered_with[i] = req[p].password
          /\ resp'[p].success =>
                /\ resp'[p].token # <<>> /\ resp'[p].user # <<>>
                /\ resp'[p].token[1].payload.sub = req[p].username
                /\ resp'[p].token[1].sig =
                      <<ALGORITHM, SECRET_KEY, resp'[p].token[1].payload>>
                /\ resp'[p].user[1].username = req[p].username]_vars

C5_Witness ==
    /\ pc[1] = "done" /\ req[1].kind = "login" /\ resp[1].success
    /\ resp[1].token[1].payload.sub = req[1].username

\* C6: a login for a username that is not in the directory and a login for
\* an existing username with a password other than the registered one get
\* the same response: success=false, "Invalid username or password", no
\* user, no token.
C6_LoginFailuresIndistinguishable ==
    [][\A p \in Procs :
        ( /\ Leaves(p, "login")
          /\ \/ UsersNamed(users_collection, req[p].username) = {}
             \/ \A i \in UsersNamed(users_collection, req[p].username) :
                    registered_with[i] # req[p].password )
        => resp'[p] = [kind |-> "AuthResponse", success |-> FALSE,
                       message |-> "Invalid username or password",
                       user |-> <<>>, token |-> <<>>]]_vars

C6_Witness ==
    /\ pc[1] = "done" /\ req[1].kind = "login" /\ ~resp[1].success
    /\ UsersNamed(users_collection, req[1].username) # {}
    /\ loc[1].user # <<>>

\* the protected operation of worker p runs or has run
Authorized(p) ==
    /\ req[p].kind = "protected"
    /\ \/ pc[p] = "route"
       \/ pc[p] = "done" /\ resp[p].kind = "ok"

WellSigned(t) ==
    /\ t.kind = "jwt"
    /\ t.sig = <<ALGORITHM, SECRET_KEY, t.payload>>

\* what holds of a request whose protected operation runs
C7_Guarded ==
    \A p \in Procs :
        Authorized(p) =>
          /\ req[p].credentials # <<>>
          /\ WellSigned(req[p].credentials[1])
          /\ loc[p].at # <<>>
          /\ ~(req[p].credentials[1].payload.exp < loc[p].at[1])
          /\ "sub" \in DOMAIN req[p].credentials[1].payload
          /\ \E i \in UsersNamed(users_collection,
                                 req[p].credentials[1].payload.sub) :
                loc[p].user = <<users_collection[i]>>

\* the step that resolves the subject, when no user has that username
C7_UnknownSubjectRejected ==
    \A p \in Procs :
        ( /\ Leaves(p, "guard_find")
          /\ UsersNamed(users_collection, loc[p].username[1]) = {} )
        => /\ pc'[p] = "done"
           /\ resp'[p].kind = "HTTPException"
           /\ resp'[p].status_code = 401

Rejected(p) ==
    /\ req[p].kind = "protected" /\ pc[p] = "done"
    /\ resp[p].kind = "HTTPException"

\* C8: a protected request is answered 401 when it has no Authorization
\* header, when its token is signed with another secret and when its token
\* is expired; every rejection of a token gets the same 401 response with
\* the generic message and the Bearer challenge.
C8_Rejected401 ==
    \A p \in Procs :
        Rejected(p) =>
          /\ resp[p].status_code = 401
          /\ req[p].credentials # <<>> =>
                resp[p] = [kind |-> "HTTPException", status_code |-> 401,
                           detail |-> "Could not validate credentials",
                           headers |-> {<<"WWW-Authenticate", "Bearer">>}]

\* C9: a token issued with TTL=0 has its expiry at the issue instant, and
\* verification at that same instant rejects it.
C9_ZeroTtlExpired ==
    \A p \in Procs :
        ( /\ req[p].kind = "issue" /\ pc[p] = "done"
          /\ req[p].expires_delta = <<0>> )
        => /\ resp[p].token[1].payload.exp = loc[p].at[1]
           /\ \A q \in Procs :
                ( /\ req[q].kind = "protected"
                  /\ req[q].credentials = resp[p].token
                  /\ loc[q].at = loc[p].at )
                => Rejected(q)

\* C10: the token register and login issue at T expires at T+30; a server
\* signed token with that expiry is accepted by the verification at T+29
\* and rejected at T+31.
C10_ThirtyMinuteToken ==
    \A p \in Procs :
        /\ ( /\ pc[p] = "done" /\ req[p].kind \in {"register", "login"}
             /\ resp[p].success )
           => resp[p].token[1].payload.exp = loc[p].at[1] + 30
        /\ ( /\ req[p].kind = "protected" /\ loc[p].at # <<>>
             /\ WellSigned(req[p].credentials[1])
             /\ "sub" \in DOMAIN req[p].credentials[1].payload )
           => LET T == req[p].credentials[1].payload.exp - 30
              IN  /\ loc[p].at[1] = T + 29 =>
                        /\ loc[p].username =
                              <<req[p].credentials[1].payload.sub>>
                        /\ ( /\ pc[p] = "done"
                             /\ UsersNamed(users_collection,
                                    req[p].credentials[1].payload.sub) # {} )
                           => resp[p].kind = "ok"
                  /\ loc[p].at[1] = T + 31 =>
                        /\ Rejected(p)
                        /\ resp[p].status_code = 401
                        /\ loc[p].username = <<>>

C10_Witness ==
    /\ Rejected(1) /\ loc[1].at = <<31>>
    /\ WellSigned(req[1].credentials[1])
    /\ req[1].credentials[1].payload.exp = 30
    /\ "sub" \in DOMAIN req[1].credentials[1].payload
    /\ \E i \in UsersNamed(users_collection,
                           req[1].credentials[1].payload.sub) :
          users_collection[i].created_at = 0

\* C11: a token issued without a TTL expires 30 minutes after the issue
\* instant, as the tokens of register and login do.
C11_DefaultTtlThirty ==
    \A p \in Procs :
        ( /\ req[p].kind = "issue" /\ pc[p] = "done"
          /\ req[p].expires_delta = <<>> )
        => resp[p].token[1].payload.exp =
              loc[p].at[1] + ACCESS_TOKEN_EXPIRE_MINUTES

\* the user views carried by the response of worker p
ViewsIn(r) ==
    IF r.kind = "AuthResponse" THEN {r.user[i] : i \in 1..Len(r.user)}
    ELSE IF r.kind = "ok" /\ r.route = "me" THEN {r.body}
    ELSE IF r.kind = "ok" /\ r.route = "users"
    THEN {r.body[i] : i \in 1..Len(r.body)}
    ELSE {}

\* C12: no response of register, login, me or list users carries a
\* password hash or a plaintext password: every user view has exactly the
\* fields id, username, email and created_at, none of them a password, and
\* a response has no other place for one.
C12_NoPasswordInResponses ==
    \A p \in Procs :
        /\ \A v \in ViewsIn(resp[p]) :
              /\ DOMAIN v = {"id", "username", "email", "created_at"}
              /\ \A f \in {"id", "username", "email"} : v[f] \notin Passwords
        /\ resp[p].kind = "AuthResponse" =>
              /\ DOMAIN resp[p] =
                    {"kind", "success", "message", "user", "token"}
              /\ resp[p].message \notin Passwords
              /\ \A i \in 1..Len(resp[p].token) :
                    DOMAIN resp[p].token[i].payload = {"sub", "exp"}
        /\ resp[p].kind = "ok" =>
              DOMAIN resp[p] = {"kind", "status_code", "route", "body"}

C12_Witness ==
    /\ pc[1] = "done" /\ req[1].kind = "protected" /\ req[1].route = "users"
    /\ resp[1].kind = "ok" /\ Len(resp[1].body) = 2
    /\ \A i \in 1..2 : resp[1].body[i].username = users_collection[i].username

\* C13: a registration with an empty username or an empty password is
\* rejected with success=false and inserts nothing, so no user with an
\* empty username is ever in the directory.
C13_EmptyFieldsRejected ==
    /\ \A i \in 1..Len(users_collection) : users_collection[i].username # ""
    /\ \A p \in Procs :
          ( /\ req[p].kind = "register"
            /\ req[p].username = "" \/ req[p].password = "" )
          => /\ pc[p] # "reg_respond"
             /\ pc[p] = "done" => ~resp[p].success

\* C14: in register and login a store call that raises, at whichever step,
\* does not escape as an exception: the call returns an AuthResponse with
\* success=false, a message that carries the error text, no user and no
\* token.
C14_StoreFailureFolded ==
    \A p \in Procs :
        req[p].kind \in {"register", "login"} =>
          /\ pc[p] = "done" => resp[p].kind = "AuthResponse"
          /\ loc[p].err # <<>> =>
                /\ pc[p] = "done"
                /\ resp[p].success = FALSE
                /\ resp[p].token = <<>>
                /\ resp[p].user = <<>>
                /\ resp[p].message =
                      (IF req[p].kind = "register"
                       THEN "Registration failed: " ELSE "Login failed: ")
                          \o loc[p].err[1]

\* the re-read after the insert raised
C14_Witness ==
    /\ pc[1] = "done" /\ req[1].kind = "register"
    /\ loc[1].err # <<>> /\ loc[1].inserted_id # <<>>
    /\ resp[1].message = "Registration failed: ServerSelectionTimeoutError"

\* the directory changes only by appending one document, in the insert
\* step of a registration
C15_OnlyInsertAppends ==
    users_collection' # users_collection =>
        /\ Len(users_collection') = Len(users_collection) + 1
        /\ SubSeq(users_collection', 1, Len(users_collection))
              = users_collection
        /\ \E p \in Procs : /\ req[p].kind = "register"
                            /\ pc[p] = "reg_insert"
                            /\ pc'[p] = "reg_respond"

\* a registration that added a user is a successful one
C15_AddedBySuccessfulRegister ==
    \A p \in Procs :
        ( /\ req[p].kind = "register" /\ pc[p] = "done"
          /\ loc[p].inserted_id # <<>> )
        => resp[p].success

\* C15: the directory changes only by a successful register, which adds
\* exactly one user; login, me, list users, health and rejected
\* registrations leave it unchanged, and a stored user is never modified
\* or removed.
C15_DirectoryFrame ==
    [][C15_OnlyInsertAppends]_vars /\ [] C15_AddedBySuccessfulRegister

\* C18: whenever register returns success=false the directory is as it was
\* before the call: the call inserted no user, also when the store raises
\* after the insert step.
C18_FailedRegisterInsertsNothing ==
    \A p \in Procs :
        ( /\ req[p].kind = "register" /\ pc[p] = "done"
          /\ ~resp[p].success )
        => loc[p].inserted_id = <<>>

\* C17: every result of register and login is well formed: with
\* success=false user and token are absent; with success=true both are
\* present, the token's subject is the username of the returned view, and
\* the view is that of a user in the directory.
C17_ResultWellFormed ==
    \A p \in Procs :
        (req[p].kind \in {"register", "login"} /\ pc[p] = "done") =>
          /\ resp[p].kind = "AuthResponse"
          /\ ~resp[p].success => resp[p].user = <<>> /\ resp[p].token = <<>>
          /\ resp[p].success =>
                /\ Len(resp[p].user) = 1 /\ Len(resp[p].token) = 1
                /\ resp[p].token[1].payload.sub = resp[p].user[1].username
                /\ resp[p].user[1].username = req[p].username
                /\ \E i \in 1..Len(users_collection) :
                      /\ str(users_collection[i]._id) = resp[p].user[1].id
                      /\ users_collection[i].username
                            = resp[p].user[1].username
                      /\ users_collection[i].email = resp[p].user[1].email
                      /\ users_collection[i].created_at
                            = resp[p].user[1].created_at

C17_Witness ==
    /\ pc[1] = "done" /\ req[1].kind = "register" /\ resp[1].success
    /\ Len(users_collection) = 1
    /\ resp[1].token[1].payload.sub = "alice"
    /\ resp[1].user[1].username = "alice"

\* C19: the token returned by a successful register or login of username u,
\* presented to me before its expiry, is authorized, and me returns the view
\* of u with the id, username and email that the result carried.
C19_IssuedTokenRoundTrip ==
    \A p \in Procs :
        ( /\ req[p].kind = "protected" /\ req[p].route = "me"
          /\ pc[p] = "done"
          /\ req[p].issued_with # {}
          /\ loc[p].at # <<>>
          /\ loc[p].at[1] < req[p].credentials[1].payload.exp )
        => /\ resp[p].kind = "ok"
           /\ resp[p].status_code = 200
           /\ \A v \in req[p].issued_with :
                 /\ resp[p].body.id = v.id
                 /\ resp[p].body.username = v.username
                 /\ resp[p].body.email = v.email
                 /\ req[p].credentials[1].payload.sub = v.username

C19_Witness ==
    /\ req[1].kind = "protected" /\ req[1].route = "me" /\ pc[1] = "done"
    /\ req[1].issued_with # {}
    /\ loc[1].at = <<29>>
    /\ req[1].credentials[1].payload.exp = ACCESS_TOKEN_EXPIRE_MINUTES
    /\ resp[1].kind = "ok"
    /\ Len(users_collection) = 2
    /\ resp[1].body.id = str(users_collection[2]._id)

\* The guard's state machine as the specification draws it
GuardEdges ==
    { <<"NoToken", "TokenPresent">>, <<"TokenPresent", "Verified">>,
      <<"Verified", "UserResolved">>, <<"UserResolved", "Authorized">>,
      <<"TokenPresent", "Unverified">>, <<"Unverified", "Rejected">>,
      <<"Verified", "UserMissing">>, <<"UserMissing", "Rejected">> }

GuardTerminal == {"Authorized", "Rejected"}

FollowsEdges(path, edges) ==
    /\ path # <<>>
    /\ path[1] = "NoToken"
    /\ \A i \in 1..(Len(path) - 1) : <<path[i], path[i + 1]>> \in edges

\* C16 as stated: every protected request moves only along the edges
\* NoToken -> TokenPresent -> Verified -> UserResolved -> Authorized,
\* TokenPresent -> Unverified -> Rejected, Verified -> UserMissing -> Rejected.
C16_OriginalEdgesOnly ==
    \A p \in Procs :
        req[p].kind = "protected" => FollowsEdges(loc[p].path, GuardEdges)

C16_Moves ==
    \A p \in Procs : req[p].kind = "protected" =>
        LET path == loc[p].path
            last == path[Len(path)]
        IN  /\ FollowsEdges(path, GuardEdges \cup {<<"NoToken", "Rejected">>})
            /\ path = <<"NoToken", "Rejected">> => req[p].credentials = <<>>
            /\ \A i \in 1..(Len(path) - 1) : path[i] \notin GuardTerminal
            /\ pc[p] \in {"route", "done"} <=> last \in GuardTerminal
            /\ last = "Authorized" <=> Authorized(p)
            /\ last = "Rejected" <=> Rejected(p)
            /\ last = "Authorized" => loc[p].user # <<>>

C16_Stays ==
    \A p \in Procs :
        ( /\ req[p].kind = "protected"
          /\ loc[p].path[Len(loc[p].path)] \in GuardTerminal
          /\ ~(Finished(p) /\ (~Finished(p)' \/ req'[p] # req[p])) )
        => /\ loc'[p].path = loc[p].path
           /\ Authorized(p) => Authorized(p)'
           /\ Rejected(p) => Rejected(p)'

C16_Terminates ==
    \A p \in Procs :
        (pc[p] = "guard_bearer")
            ~> ( /\ req[p].kind = "protected"
                 /\ loc[p].path[Len(loc[p].path)] \in GuardTerminal )

\* C16 (amended): every request to a protected route starts in NoToken and
\* moves only along the edges of the guard's state machine or, when it
\* carries no bearer credentials, along NoToken -> Rejected; given that store
\* calls return it eventually reaches exactly one terminal state, Authorized
\* or Rejected, and never leaves it.
C16_GuardStateMachine ==
    /\ [] C16_Moves
    /\ [][C16_Stays]_vars
    /\ C16_Terminates

C16_Witness ==
    /\ req[1].kind = "protected" /\ pc[1] = "done"
    /\ loc[1].path = <<"NoToken", "TokenPresent", "Verified",
                       "UserResolved", "Authorized">>
    /\ resp[1].kind = "ok"

====
